---- MODULE Spec2Model ----
(***************************************************************************)
(* Pollable, cancellable dependencies of package dependency: KVListQuery   *)
(* (kv_list.go), HealthServiceQuery (health_service.go) and the key-value  *)
(* get / exists kinds exercised by kv_get_test.go.                         *)
(*                                                                         *)
(* One dependency instance lives in a behaviour.  Its kind and descriptor  *)
(* are chosen by Init (the constructor's result), the remote store is      *)
(* chosen by Init as well.  A Fetch is split at its only blocking point,   *)
(* the transport call: ...FetchCall runs the handler up to the call,       *)
(* ...FetchOk / ...FetchErr run it from the transport's answer to return.  *)
(*                                                                         *)
(* Go strings are sequences of one-character strings, so that comparison,  *)
(* concatenation and trimming are computed and not assumed.                *)
(***************************************************************************)
EXTENDS Integers, Sequences, FiniteSets, TLC

\* ------------------------------------------------------------- bounds
\* Most records the remote store holds.
MaxEntries == 2
\* Largest index value (WaitIndex of the options, LastIndex of an answer).
MaxIndex == 2
\* Saturation point of the history counters.
MaxFetches == 2

\* ------------------------------------------------------------- strings
\* Byte value of a character (ASCII), for Go's bytewise string order.
Ord(c) ==
    CASE c = "-" -> 45 [] c = "/" -> 47 [] c = "1" -> 49 [] c = "2" -> 50
      [] c = "a" -> 97 [] c = "b" -> 98 [] c = "c" -> 99 [] c = "d" -> 100
      [] c = "e" -> 101 [] c = "k" -> 107 [] c = "n" -> 110 [] c = "o" -> 111
      [] c = "s" -> 115 [] c = "t" -> 116 [] c = "v" -> 118 [] c = "x" -> 120
      [] c = "y" -> 121 [] c = "g" -> 103 [] c = "i" -> 105 [] c = "l" -> 108
      [] c = "m" -> 109 [] c = "p" -> 112 [] c = "r" -> 114 [] c = "u" -> 117
      [] c = "w" -> 119

RECURSIVE StrLess(_, _)
\* Go's a < b on strings: lexicographic by byte, a proper prefix is smaller.
StrLess(a, b) ==
    IF b = <<>> THEN FALSE
    ELSE IF a = <<>> THEN TRUE
    ELSE IF Ord(Head(a)) < Ord(Head(b)) THEN TRUE
    ELSE IF Ord(Head(a)) > Ord(Head(b)) THEN FALSE
    ELSE StrLess(Tail(a), Tail(b))

\* Go's a <= b on strings.
StrLessEq(a, b) == a = b \/ StrLess(a, b)

\* strings.HasPrefix(s, p)
HasPrefix(s, p) == Len(s) >= Len(p) /\ SubSeq(s, 1, Len(p)) = p

\* strings.TrimPrefix(s, p)
TrimPrefix(s, p) == IF HasPrefix(s, p) THEN SubSeq(s, Len(p) + 1, Len(s)) ELSE s

\* A trim of one leading "/" only.
TrimOneSlash(s) == IF s # <<>> /\ Head(s) = "/" THEN Tail(s) ELSE s

RECURSIVE TrimLeftSlash(_)
\* strings.TrimLeft(s, "/")
TrimLeftSlash(s) == IF s # <<>> /\ Head(s) = "/" THEN TrimLeftSlash(Tail(s)) ELSE s

RECURSIVE Join(_, _)
\* strings.Join(list, sep)
Join(list, sep) ==
    IF list = <<>> THEN <<>>
    ELSE IF Len(list) = 1 THEN list[1]
    ELSE list[1] \o sep \o Join(Tail(list), sep)

\* String literals of the sources.
EmptyStr == <<>>
DC1 == <<"d", "c", "1">>
DC2 == <<"d", "c", "2">>
NodeA == <<"n", "o", "d", "e", "-", "a">>
NodeB == <<"n", "o", "d", "e", "-", "b">>
IdA1 == <<"a", "1">>
IdB1 == <<"b", "1">>
Svc == <<"s", "v", "c">>
HealthAny == <<"a", "n", "y">>
HealthPassing == <<"p", "a", "s", "s", "i", "n", "g">>
HealthWarning == <<"w", "a", "r", "n", "i", "n", "g">>
HealthCritical == <<"c", "r", "i", "t", "i", "c", "a", "l">>
HealthMaint == <<"m", "a", "i", "n", "t", "e", "n", "a", "n", "c", "e">>

\* ------------------------------------------------------------- channel
\* make(chan struct{}, 1): open, nothing buffered.
MakeChan == [closed |-> FALSE, len |-> 0]

\* A receive that is ready on a buffered value only, not on a closed channel.
ChanTryRecvOpenOnly(ch) ==
    IF ch.len > 0 THEN [ok |-> TRUE, ch |-> [ch EXCEPT !.len = @ - 1]]
    ELSE [ok |-> FALSE, ch |-> ch]

\* The receive case of "select { case <-ch: ... default: }": ready when a value
\* is buffered (it is taken) or the channel is closed (it stays closed).
ChanTryRecv(ch) ==
    IF ch.len > 0 THEN [ok |-> TRUE, ch |-> [ch EXCEPT !.len = @ - 1]]
    ELSE IF ch.closed THEN [ok |-> TRUE, ch |-> ch]
    ELSE [ok |-> FALSE, ch |-> ch]

\* A stop signal sent on the channel (ch <- struct{}{}) instead of closing it.
ChanSendStop(ch) == [panic |-> FALSE, ch |-> [ch EXCEPT !.len = 1]]

\* A close that leaves the channel open.
ChanCloseLost(ch) == [panic |-> FALSE, ch |-> ch]

\* close(ch): closing a closed channel panics.
ChanClose(ch) ==
    IF ch.closed THEN [panic |-> TRUE, ch |-> ch]
    ELSE [panic |-> FALSE, ch |-> [ch EXCEPT !.closed = TRUE]]

\* ------------------------------------------------------------- options
ZeroOptions ==
    [AllowStale |-> FALSE, Datacenter |-> EmptyStr, Near |-> EmptyStr,
     WaitIndex |-> 0, WaitTime |-> 0]

\* QueryOptions.Merge: a zero field of the override keeps the base's value,
\* any other field of the override wins; neither input is changed.
Merge(q, o) ==
    [AllowStale |-> IF o.AllowStale # FALSE THEN o.AllowStale ELSE q.AllowStale,
     Datacenter |-> IF o.Datacenter # EmptyStr THEN o.Datacenter ELSE q.Datacenter,
     Near       |-> IF o.Near # EmptyStr THEN o.Near ELSE q.Near,
     WaitIndex  |-> IF o.WaitIndex # 0 THEN o.WaitIndex ELSE q.WaitIndex,
     WaitTime   |-> IF o.WaitTime # 0 THEN o.WaitTime ELSE q.WaitTime]

\* QueryOptions.ToConsulOpts: the options as the transport's parameters.
ToConsulOpts(q) ==
    [AllowStale |-> q.AllowStale, Datacenter |-> q.Datacenter, Near |-> q.Near,
     WaitIndex |-> q.WaitIndex, WaitTime |-> q.WaitTime]

\* ------------------------------------------------------------- values
\* What Fetch returns as data: nil, a string, a list of key pairs or a list
\* of health services.
Nil == [tag |-> "nil"]
StringValue(s) == [tag |-> "string", val |-> s]
PairList(l) == [tag |-> "pairs", val |-> l]
ServiceList(l) == [tag |-> "services", val |-> l]

\* *dep.ResponseMetadata: nil, or the transport's LastIndex and LastContact.
NilMeta == [tag |-> "nil"]
ResponseMetadata(qm) ==
    [tag |-> "meta", LastIndex |-> qm.LastIndex, LastContact |-> qm.LastContact]

\* Errors: nil, ErrStopped, or a transport error wrapped with the
\* dependency's String() (errors.Wrap(err, d.String())).
NilErr == [tag |-> "nil"]
ErrStopped == [tag |-> "ErrStopped"]

\* A wrap that hands the cause on without the context.
WrapNothing(cause, msg) == [tag |-> "wrapped", msg |-> <<>>, cause |-> cause]
Wrap(cause, msg) == [tag |-> "wrapped", msg |-> msg, cause |-> cause]

\* The three results of a Fetch, and "no Fetch has returned yet".
NoReturn == [data |-> Nil, meta |-> NilMeta, err |-> [tag |-> "none"]]
ReturnStopped == [data |-> Nil, meta |-> NilMeta, err |-> ErrStopped]
ReturnError(e) == [data |-> Nil, meta |-> NilMeta, err |-> e]
ReturnData(v, rm) == [data |-> v, meta |-> rm, err |-> NilErr]

\* No request is with the transport.
NoRequest == [op |-> "none"]

\* ------------------------------------------------------------- remote data
\* Raw key-value pairs of the remote store (api.KVPair).
RawPair(k, v, i) ==
    [Key |-> k, Value |-> v, CreateIndex |-> i, ModifyIndex |-> i + 1,
     LockIndex |-> 0, Flags |-> i, Session |-> EmptyStr]

ListPairs ==
    {RawPair(<<"a", "/", "x">>, <<"1">>, 1),
     RawPair(<<"a", "/", "/", "y">>, EmptyStr, 2),
     RawPair(<<"b">>, <<"2">>, 1)}

\* The one key of the get / exists queries, with a value or with the empty
\* string as value.
TheKey == <<"k">>
GetPairs == {RawPair(TheKey, <<"v">>, 1), RawPair(TheKey, EmptyStr, 1)}

\* Health checks of an entry (api.HealthCheck), by check id and status.
Check(id, status) ==
    [Node |-> EmptyStr, CheckID |-> id, Name |-> id, Status |-> status]

CheckLists ==
    {<<Check(<<"c", "1">>, HealthPassing)>>,
     <<Check(<<"c", "1">>, HealthPassing), Check(<<"c", "2">>, HealthCritical)>>}

\* Entries of the health endpoint (api.ServiceEntry): two nodes, two service
\* ids, healthy or not.  The service of id a1 has no address of its own.
ServiceEntry(node, id, checks) ==
    [Node |-> [Node |-> node, Address |-> <<"1">> \o node],
     Service |-> [ID |-> id, Service |-> Svc,
                  Address |-> IF id = IdA1 THEN EmptyStr ELSE <<"2">> \o id,
                  Tags |-> IF id = IdB1 THEN <<<<"t", "2">>, <<"t", "1">>>> ELSE <<>>],
     Checks |-> checks]

HealthEntries ==
    {ServiceEntry(n, i, c) : n \in {NodeA, NodeB}, i \in {IdA1, IdB1}, c \in CheckLists}

\* The sets of at most n elements of S.
SubsetsUpTo(S, n) == {T \in SUBSET S : Cardinality(T) <= n}

\* Every order in which the transport can deliver the records of a store.
Responses(S) ==
    {s \in [1..Cardinality(S) -> S] : \A i, j \in 1..Cardinality(S) : s[i] = s[j] => i = j}

\* The transport's query metadata (api.QueryMeta).
QueryMetas == {[LastIndex |-> i, LastContact |-> 0] : i \in 1..MaxIndex}

\* ------------------------------------------------------------- descriptors
KVListDescriptors ==
    {[kind |-> "kv.list", dc |-> dc, prefix |-> p] :
        dc \in {EmptyStr, DC1}, p \in {EmptyStr, <<"a">>}}

FilterLists == {<<HealthPassing>>, <<HealthAny>>, <<HealthCritical, HealthPassing>>}

\* NewHealthServiceQuery's descriptors, and one of NewHealthConnectQuery.
HealthDescriptors ==
    {[kind |-> "health.service", dc |-> DC1, filters |-> f, name |-> Svc,
      near |-> n, tag |-> EmptyStr, connect |-> FALSE] :
        f \in FilterLists, n \in {EmptyStr, NodeB}}
    \cup {[kind |-> "health.service", dc |-> EmptyStr, filters |-> <<HealthAny>>,
           name |-> Svc, near |-> EmptyStr, tag |-> <<"t", "1">>, connect |-> TRUE]}

KVKeyDescriptors ==
    {[kind |-> k, dc |-> EmptyStr, key |-> TheKey] : k \in {"kv.get", "kv.exists"}}

Descriptors == KVListDescriptors \cup HealthDescriptors \cup KVKeyDescriptors

\* The records a remote store can hold for a dependency of descriptor q; the
\* store of a get / exists query holds its key once or not at all.
Records(q) ==
    CASE q.kind = "kv.list" -> ListPairs
      [] q.kind = "health.service" -> HealthEntries
      [] OTHER -> GetPairs

\* The remote stores of at most MaxEntries records.
Stores(q) ==
    IF q.kind \in {"kv.get", "kv.exists"}
    THEN {{}} \cup {{r} : r \in Records(q)}
    ELSE SubsetsUpTo(Records(q), MaxEntries)

\* The empty store and the stores of one record.
SmallStores(q) == {{}} \cup {{r} : r \in Records(q)}

\* The options a caller hands to SetOptions.
OptionChoices ==
    {ZeroOptions}
    \cup {[ZeroOptions EXCEPT !.WaitIndex = i, !.WaitTime = 1] : i \in 1..MaxIndex}
    \cup {[ZeroOptions EXCEPT !.Datacenter = DC2, !.Near = NodeA, !.AllowStale = TRUE]}

\* ------------------------------------------------------------- state
VARIABLES
    d,         \* the instance's descriptor fields (kind, dc, prefix, ...)
    ident,     \* the identifier the constructor was called with, and its outcome
    stopCh,    \* the instance's stop channel
    opts,      \* the instance's current QueryOptions
    pc,        \* the fetching task: "idle", "transport" (inside the call), "exited"
    req,       \* the request the transport is working on
    resp,      \* the raw records of the transport's last answer
    ret,       \* what the last Fetch returned
    panicked,  \* a panic has taken the process down
    observed,  \* what the last String() or CanShare() returned
    store,     \* the remote store
    hist       \* history: Stop calls, and Fetch calls and returns after Stop

vars == <<d, ident, stopCh, opts, pc, req, resp, ret, panicked, observed, store, hist>>

\* n + 1, saturating at MaxFetches.
Bump(n) == IF n < MaxFetches THEN n + 1 ELSE n

\* stops: Stop calls that have returned; lastSet: the options of the last
\* SetOptions call; waited: a SetOptions call before the last one carried a
\* WaitIndex; began: Fetch calls begun after a Stop returned; stopped: those of
\* them that returned ErrStopped; late: Fetch returns with data after a Stop;
\* reordered: the last Fetch returned data, the one before it too, and the
\* transport delivered their records in different orders.
NoHistory ==
    [stops |-> 0, lastSet |-> ZeroOptions, waited |-> FALSE,
     began |-> 0, stopped |-> 0, late |-> 0, reordered |-> FALSE]

\* The constructor's call is not part of the behaviour: the instance is there.
Elided ==
    [ctor |-> "elided", s |-> EmptyStr, tokens |-> <<>>, called |-> TRUE,
     err |-> NilErr, again |-> Nil]

\* NewKVListQuery, NewHealthServiceQuery, NewHealthConnectQuery, NewKVGetQuery,
\* NewKVExistsQuery: a fresh stop channel, zero options, the parsed descriptor.
NewQuery ==
    /\ d \in Descriptors
    /\ ident = Elided
    /\ stopCh = MakeChan
    /\ opts = ZeroOptions
    /\ pc = "idle"
    /\ req = NoRequest
    /\ resp = <<>>
    /\ ret = NoReturn
    /\ panicked = FALSE
    /\ observed = Nil
    /\ hist = NoHistory

\* A new instance facing a small remote store.
Init == NewQuery /\ store \in SmallStores(d)

\* A new instance facing a remote store of up to MaxEntries records.
FetchInit == NewQuery /\ store \in Stores(d)

\* ------------------------------------------------------------- history
\* A Stop call has returned.
NoteStop(h) == [h EXCEPT !.stops = Bump(@)]

\* A Fetch call has begun; stoppedAtOnce: it returned ErrStopped at its check.
NoteCall(h, stoppedAtOnce) ==
    IF h.stops = 0 THEN h
    ELSE [h EXCEPT !.began = Bump(@),
                   !.stopped = IF stoppedAtOnce THEN Bump(@) ELSE @]

\* SetOptions(o) has been called.
NoteSet(h, o) ==
    [h EXCEPT !.waited = @ \/ h.lastSet.WaitIndex # 0, !.lastSet = o]

\* A Fetch has returned data for the answer now; before it the last return
\* was last, for the answer before.
NoteData(h, last, before, now) ==
    [h EXCEPT !.late = IF h.stops = 0 THEN @ ELSE Bump(@),
              !.reordered = last.err = NilErr /\ before # now]

\* ------------------------------------------------------------- KVListQuery
\* KVListQuery.String
KVListQueryString(q) ==
    <<"k", "v", ".", "l", "i", "s", "t", "(">>
    \o (IF q.dc # EmptyStr THEN q.prefix \o <<"@">> \o q.dc ELSE q.prefix)
    \o <<")">>

\* One *KeyPair of Fetch's result.
KeyPair(pair, prefix) ==
    [Path |-> pair.Key,
     Key |-> TrimLeftSlash(TrimPrefix(pair.Key, prefix)),
     Value |-> pair.Value,
     CreateIndex |-> pair.CreateIndex,
     ModifyIndex |-> pair.ModifyIndex,
     LockIndex |-> pair.LockIndex,
     Flags |-> pair.Flags,
     Session |-> pair.Session]

RECURSIVE KeyPairs(_, _)
\* Fetch's loop over the transport's list.
KeyPairs(list, prefix) ==
    IF list = <<>> THEN <<>>
    ELSE <<KeyPair(Head(list), prefix)>> \o KeyPairs(Tail(list), prefix)

\* A Fetch that hands the stored options to the transport as they are.
KVListFetchCallNoMerge ==
    /\ ~panicked /\ d.kind = "kv.list" /\ pc = "idle"
    /\ LET r == ChanTryRecv(stopCh) IN
         /\ stopCh' = r.ch
         /\ hist' = NoteCall(hist, r.ok)
         /\ IF r.ok
            THEN /\ ret' = ReturnStopped
                 /\ UNCHANGED <<pc, req>>
            ELSE /\ req' = [op |-> "KV.List", key |-> d.prefix, q |-> ToConsulOpts(opts)]
                 /\ pc' = "transport"
                 /\ UNCHANGED ret
    /\ UNCHANGED <<d, ident, opts, resp, panicked, observed, store>>

\* KVListQuery.Fetch up to the transport call: the stop check, the merge of
\* the options, the request.
KVListFetchCall ==
    /\ ~panicked /\ d.kind = "kv.list" /\ pc = "idle"
    /\ LET r == ChanTryRecv(stopCh) IN
         /\ stopCh' = r.ch
         /\ hist' = NoteCall(hist, r.ok)
         /\ IF r.ok
            THEN /\ ret' = ReturnStopped
                 /\ UNCHANGED <<pc, req>>
            ELSE /\ req' = [op |-> "KV.List", key |-> d.prefix,
                            q |-> ToConsulOpts(Merge(opts, [ZeroOptions EXCEPT !.Datacenter = d.dc]))]
                 /\ pc' = "transport"
                 /\ UNCHANGED ret
    /\ UNCHANGED <<d, ident, opts, resp, panicked, observed, store>>

\* A Fetch that looks at the stop channel again when the transport answers.
KVListFetchOkStopAware ==
    /\ ~panicked /\ d.kind = "kv.list" /\ pc = "transport"
    /\ \E list \in Responses(store), qm \in QueryMetas :
         /\ resp' = list
         /\ ret' = IF stopCh.closed THEN ReturnStopped
                   ELSE ReturnData(PairList(KeyPairs(list, d.prefix)), ResponseMetadata(qm))
    /\ pc' = "idle"
    /\ req' = NoRequest
    /\ hist' = NoteData(hist, ret, resp, resp')
    /\ UNCHANGED <<d, ident, stopCh, opts, panicked, observed, store>>

\* KVListQuery.Fetch from the transport's list to the return.
KVListFetchOk ==
    /\ ~panicked /\ d.kind = "kv.list" /\ pc = "transport"
    /\ \E list \in Responses(store), qm \in QueryMetas :
         /\ resp' = list
         /\ ret' = ReturnData(PairList(KeyPairs(list, d.prefix)), ResponseMetadata(qm))
    /\ pc' = "idle"
    /\ req' = NoRequest
    /\ hist' = NoteData(hist, ret, resp, resp')
    /\ UNCHANGED <<d, ident, stopCh, opts, panicked, observed, store>>

\* KVListQuery.Fetch when the transport fails.
KVListFetchErr ==
    /\ ~panicked /\ d.kind = "kv.list" /\ pc = "transport"
    /\ ret' = ReturnError(Wrap("transport", KVListQueryString(d)))
    /\ pc' = "idle"
    /\ req' = NoRequest
    /\ UNCHANGED <<d, ident, stopCh, opts, resp, panicked, observed, store, hist>>

\* KVListQuery.Stop
KVListStop ==
    /\ ~panicked /\ d.kind = "kv.list"
    /\ LET c == ChanClose(stopCh) IN
         /\ stopCh' = c.ch
         /\ panicked' = c.panic
         /\ hist' = IF c.panic THEN hist ELSE NoteStop(hist)
    /\ UNCHANGED <<d, ident, opts, pc, req, resp, ret, observed, store>>

\* A SetOptions that merges the new options into the current ones.
KVListSetOptionsMerging ==
    /\ ~panicked /\ d.kind = "kv.list" /\ pc = "idle"
    /\ \E o \in OptionChoices :
         /\ opts' = Merge(opts, o)
         /\ hist' = NoteSet(hist, o)
    /\ UNCHANGED <<d, ident, stopCh, pc, req, resp, ret, panicked, observed, store>>

\* KVListQuery.SetOptions, called by the fetching task between its fetches.
KVListSetOptions ==
    /\ ~panicked /\ d.kind = "kv.list" /\ pc = "idle"
    /\ \E o \in OptionChoices :
         /\ opts' = o
         /\ hist' = NoteSet(hist, o)
    /\ UNCHANGED <<d, ident, stopCh, pc, req, resp, ret, panicked, observed, store>>

\* KVListQuery.String
KVListString ==
    /\ ~panicked /\ d.kind = "kv.list"
    /\ observed' = StringValue(KVListQueryString(d))
    /\ UNCHANGED <<d, ident, stopCh, opts, pc, req, resp, ret, panicked, store, hist>>

\* KVListQuery.CanShare
KVListCanShare ==
    /\ ~panicked /\ d.kind = "kv.list"
    /\ observed' = [tag |-> "bool", val |-> TRUE]
    /\ UNCHANGED <<d, ident, stopCh, opts, pc, req, resp, ret, panicked, store, hist>>

\* ------------------------------------------------------------- HealthServiceQuery
NodeMaint == <<"_", "n", "o", "d", "e", "_", "m", "a", "i", "n", "t", "e", "n", "a", "n", "c", "e">>
ServiceMaint ==
    <<"_", "s", "e", "r", "v", "i", "c", "e", "_", "m", "a", "i", "n", "t", "e", "n", "a", "n", "c", "e", ":">>

\* entry.Checks.AggregatedStatus(): maintenance over critical over warning
\* over passing; passing without checks; "" on a status it does not know.
AggregatedStatus(checks) ==
    LET idx == 1..Len(checks)
        maint(i) == checks[i].CheckID = NodeMaint \/ HasPrefix(checks[i].CheckID, ServiceMaint)
        known(i) == checks[i].Status \in {HealthPassing, HealthWarning, HealthCritical}
        has(st) == \E i \in idx : ~maint(i) /\ checks[i].Status = st
        unknown == {i \in idx : ~maint(i) /\ ~known(i)}
        \* the loop returns "" at the first unknown status, whatever follows
    IN  IF unknown # {} THEN EmptyStr
        ELSE IF \E i \in idx : maint(i) THEN HealthMaint
        ELSE IF has(HealthCritical) THEN HealthCritical
        ELSE IF has(HealthWarning) THEN HealthWarning
        ELSE HealthPassing

\* An acceptStatus without the "any" filter.
AcceptStatusExact(list, st) == \E i \in 1..Len(list) : list[i] = st

\* acceptStatus
AcceptStatus(list, st) ==
    \E i \in 1..Len(list) : list[i] = st \/ list[i] = HealthAny

\* s with the elements at i and j exchanged (Swap of a sort.Interface).
Swap(s, i, j) == [s EXCEPT ![i] = s[j], ![j] = s[i]]

RECURSIVE SinkTag(_, _)
SinkTag(s, j) ==
    IF j > 1 /\ StrLess(s[j], s[j - 1]) THEN SinkTag(Swap(s, j, j - 1), j - 1) ELSE s

RECURSIVE SortTagsFrom(_, _)
SortTagsFrom(s, i) == IF i > Len(s) THEN s ELSE SortTagsFrom(SinkTag(s, i), i + 1)

\* deepCopyAndSortTags: a copy of the tags in ascending order.
DeepCopyAndSortTags(tags) == SortTagsFrom(tags, 2)

\* A Less that compares the nodes and forgets the ids.
ByNodeOnlyLess(a, b) == StrLessEq(a.Node, b.Node)

\* ByNodeThenID.Less on two services.
ByNodeThenIDLess(a, b) ==
    IF StrLess(a.Node, b.Node) THEN TRUE
    ELSE IF a.Node = b.Node THEN StrLessEq(a.ID, b.ID)
    ELSE FALSE

RECURSIVE Sink(_, _)
\* The inner loop of sort's insertionSort:
\* for j := i; j > a && data.Less(j, j-1); j-- { data.Swap(j, j-1) }
Sink(s, j) ==
    IF j > 1 /\ ByNodeThenIDLess(s[j], s[j - 1]) THEN Sink(Swap(s, j, j - 1), j - 1) ELSE s

RECURSIVE InsertionSortFrom(_, _)
\* The outer loop of insertionSort: for i := a + 1; i < b; i++
InsertionSortFrom(s, i) == IF i > Len(s) THEN s ELSE InsertionSortFrom(Sink(s, i), i + 1)

\* sort.Stable(ByNodeThenID(list)): sort.Stable insertion-sorts blocks of 20
\* elements and merges the blocks; a list of at most 20 elements is one block.
SortStable(list) == InsertionSortFrom(list, 2)

\* One *HealthService of Fetch's result.
HealthService(entry) ==
    [Node |-> entry.Node.Node,
     NodeAddress |-> entry.Node.Address,
     Address |-> IF entry.Service.Address = EmptyStr
                 THEN entry.Node.Address ELSE entry.Service.Address,
     ID |-> entry.Service.ID,
     Name |-> entry.Service.Service,
     Tags |-> DeepCopyAndSortTags(entry.Service.Tags),
     Status |-> AggregatedStatus(entry.Checks),
     Checks |-> entry.Checks]

RECURSIVE HealthServices(_, _)
\* Fetch's loop over the transport's entries: an entry whose status the
\* filters do not accept is skipped.
HealthServices(entries, filters) ==
    IF entries = <<>> THEN <<>>
    ELSE (IF AcceptStatus(filters, AggregatedStatus(Head(entries).Checks))
          THEN <<HealthService(Head(entries))>> ELSE <<>>)
         \o HealthServices(Tail(entries), filters)

\* A Fetch that never sorts.
HealthFetchListUnsorted(entries, q) == HealthServices(entries, q.filters)

\* A Fetch that sorts whatever the descriptor says.
HealthFetchListAlwaysSorted(entries, q) == SortStable(HealthServices(entries, q.filters))

\* Fetch's list: sorted unless the descriptor names a near node.
HealthFetchList(entries, q) ==
    LET list == HealthServices(entries, q.filters)
    IN  IF q.near = EmptyStr THEN SortStable(list) ELSE list

\* A String that leaves the filter out when it is the default one.
HealthServiceQueryStringBare(q) ==
    LET n1 == IF q.tag # EmptyStr THEN q.tag \o <<".">> \o q.name ELSE q.name
        n2 == IF q.dc # EmptyStr THEN n1 \o <<"@">> \o q.dc ELSE n1
        n3 == IF q.near # EmptyStr THEN n2 \o <<"~">> \o q.near ELSE n2
        n4 == IF q.filters # <<HealthPassing>>
              THEN n3 \o <<"|">> \o Join(q.filters, <<",">>) ELSE n3
    IN  <<"h", "e", "a", "l", "t", "h", ".", "s", "e", "r", "v", "i", "c", "e", "(">>
        \o n4 \o <<")">>

\* HealthServiceQuery.String
HealthServiceQueryString(q) ==
    LET n1 == IF q.tag # EmptyStr THEN q.tag \o <<".">> \o q.name ELSE q.name
        n2 == IF q.dc # EmptyStr THEN n1 \o <<"@">> \o q.dc ELSE n1
        n3 == IF q.near # EmptyStr THEN n2 \o <<"~">> \o q.near ELSE n2
        n4 == IF Len(q.filters) > 0 THEN n3 \o <<"|">> \o Join(q.filters, <<",">>) ELSE n3
    IN  <<"h", "e", "a", "l", "t", "h", ".", "s", "e", "r", "v", "i", "c", "e", "(">>
        \o n4 \o <<")">>

\* HealthServiceQuery.Fetch up to the transport call.
HealthFetchCall ==
    /\ ~panicked /\ d.kind = "health.service" /\ pc = "idle"
    /\ LET r == ChanTryRecv(stopCh) IN
         /\ stopCh' = r.ch
         /\ hist' = NoteCall(hist, r.ok)
         /\ IF r.ok
            THEN /\ ret' = ReturnStopped
                 /\ UNCHANGED <<pc, req>>
            ELSE /\ req' = [op |-> IF d.connect THEN "Health.Connect" ELSE "Health.Service",
                            key |-> d.name,
                            tag |-> d.tag,
                            passingOnly |-> Len(d.filters) = 1 /\ d.filters[1] = HealthPassing,
                            q |-> ToConsulOpts(Merge(opts,
                                     [ZeroOptions EXCEPT !.Datacenter = d.dc, !.Near = d.near]))]
                 /\ pc' = "transport"
                 /\ UNCHANGED ret
    /\ UNCHANGED <<d, ident, opts, resp, panicked, observed, store>>

\* HealthServiceQuery.Fetch from the transport's entries to the return.
HealthFetchOk ==
    /\ ~panicked /\ d.kind = "health.service" /\ pc = "transport"
    /\ \E entries \in Responses(store), qm \in QueryMetas :
         /\ resp' = entries
         /\ ret' = ReturnData(ServiceList(HealthFetchList(entries, d)), ResponseMetadata(qm))
    /\ pc' = "idle"
    /\ req' = NoRequest
    /\ hist' = NoteData(hist, ret, resp, resp')
    /\ UNCHANGED <<d, ident, stopCh, opts, panicked, observed, store>>

\* HealthServiceQuery.Fetch when the transport fails.
HealthFetchErr ==
    /\ ~panicked /\ d.kind = "health.service" /\ pc = "transport"
    /\ ret' = ReturnError(Wrap("transport", HealthServiceQueryString(d)))
    /\ pc' = "idle"
    /\ req' = NoRequest
    /\ UNCHANGED <<d, ident, stopCh, opts, resp, panicked, observed, store, hist>>

\* HealthServiceQuery.Stop
HealthStop ==
    /\ ~panicked /\ d.kind = "health.service"
    /\ LET c == ChanClose(stopCh) IN
         /\ stopCh' = c.ch
         /\ panicked' = c.panic
         /\ hist' = IF c.panic THEN hist ELSE NoteStop(hist)
    /\ UNCHANGED <<d, ident, opts, pc, req, resp, ret, observed, store>>

\* A SetOptions that takes the caller's datacenter into the descriptor.
HealthSetOptionsIntoDescriptor ==
    /\ ~panicked /\ d.kind = "health.service" /\ pc = "idle"
    /\ \E o \in OptionChoices :
         /\ opts' = o
         /\ d' = [d EXCEPT !.dc = IF o.Datacenter # EmptyStr THEN o.Datacenter ELSE @]
         /\ hist' = NoteSet(hist, o)
    /\ UNCHANGED <<ident, stopCh, pc, req, resp, ret, panicked, observed, store>>

\* HealthServiceQuery.SetOptions, called by the fetching task between its fetches.
HealthSetOptions ==
    /\ ~panicked /\ d.kind = "health.service" /\ pc = "idle"
    /\ \E o \in OptionChoices :
         /\ opts' = o
         /\ hist' = NoteSet(hist, o)
    /\ UNCHANGED <<d, ident, stopCh, pc, req, resp, ret, panicked, observed, store>>

\* HealthServiceQuery.String
HealthString ==
    /\ ~panicked /\ d.kind = "health.service"
    /\ observed' = StringValue(HealthServiceQueryString(d))
    /\ UNCHANGED <<d, ident, stopCh, opts, pc, req, resp, ret, panicked, store, hist>>

\* HealthServiceQuery.CanShare
HealthCanShare ==
    /\ ~panicked /\ d.kind = "health.service"
    /\ observed' = [tag |-> "bool", val |-> TRUE]
    /\ UNCHANGED <<d, ident, stopCh, opts, pc, req, resp, ret, panicked, store, hist>>

\* ------------------------------------------------------------- KVGetQuery, KVExistsQuery
\* The key-value get and exists kinds, as the specification describes them
\* and kv_get_test.go exercises them.
IsKVKey == d.kind \in {"kv.get", "kv.exists"}

\* String: "kv.get(key@dc)", "kv.exists(key@dc)".
KVKeyQueryString(q) ==
    (IF q.kind = "kv.get" THEN <<"k", "v", ".", "g", "e", "t", "(">>
     ELSE <<"k", "v", ".", "e", "x", "i", "s", "t", "s", "(">>)
    \o (IF q.dc # EmptyStr THEN q.key \o <<"@">> \o q.dc ELSE q.key)
    \o <<")">>

\* A get that takes the empty value for a missing key.
KVGetValueEmptyIsNil(pairs) ==
    IF pairs = <<>> \/ pairs[1].Value = EmptyStr THEN Nil ELSE StringValue(pairs[1].Value)

\* The scalar of a get: nil when the key is not found, else the pair's value,
\* the empty string included.
KVGetValue(pairs) ==
    IF pairs = <<>> THEN Nil ELSE StringValue(pairs[1].Value)

\* Fetch up to the transport call.
KVKeyFetchCall ==
    /\ ~panicked /\ IsKVKey /\ pc = "idle"
    /\ LET r == ChanTryRecv(stopCh) IN
         /\ stopCh' = r.ch
         /\ hist' = NoteCall(hist, r.ok)
         /\ IF r.ok
            THEN /\ ret' = ReturnStopped
                 /\ UNCHANGED <<pc, req>>
            ELSE /\ req' = [op |-> "KV.Get", key |-> d.key,
                            q |-> ToConsulOpts(Merge(opts, [ZeroOptions EXCEPT !.Datacenter = d.dc]))]
                 /\ pc' = "transport"
                 /\ UNCHANGED ret
    /\ UNCHANGED <<d, ident, opts, resp, panicked, observed, store>>

\* Fetch from the transport's answer to the return.
KVKeyFetchOk ==
    /\ ~panicked /\ IsKVKey /\ pc = "transport"
    /\ \E pairs \in Responses(store), qm \in QueryMetas :
         /\ resp' = pairs
         /\ ret' = ReturnData(KVGetValue(pairs), ResponseMetadata(qm))
    /\ pc' = "idle"
    /\ req' = NoRequest
    /\ hist' = NoteData(hist, ret, resp, resp')
    /\ UNCHANGED <<d, ident, stopCh, opts, panicked, observed, store>>

\* Fetch when the transport fails.
KVKeyFetchErr ==
    /\ ~panicked /\ IsKVKey /\ pc = "transport"
    /\ ret' = ReturnError(Wrap("transport", KVKeyQueryString(d)))
    /\ pc' = "idle"
    /\ req' = NoRequest
    /\ UNCHANGED <<d, ident, stopCh, opts, resp, panicked, observed, store, hist>>

\* Stop: signals once, a later call is a no-op.
KVKeyStop ==
    /\ ~panicked /\ IsKVKey
    /\ stopCh' = [stopCh EXCEPT !.closed = TRUE]
    /\ hist' = NoteStop(hist)
    /\ UNCHANGED <<d, ident, opts, pc, req, resp, ret, panicked, observed, store>>

\* The options a get query stores: as given.
KVGetOptions(o) == o

\* An exists query that stores the options as given.
KVExistsOptionsKept(o) == o

\* The options an exists query stores: the blocking parameters dropped.
KVExistsOptions(o) == [o EXCEPT !.WaitIndex = 0, !.WaitTime = 0]

\* KVGetQuery.SetOptions
KVGetSetOptions ==
    /\ ~panicked /\ d.kind = "kv.get" /\ pc = "idle"
    /\ \E o \in OptionChoices :
         /\ opts' = KVGetOptions(o)
         /\ hist' = NoteSet(hist, o)
    /\ UNCHANGED <<d, ident, stopCh, pc, req, resp, ret, panicked, observed, store>>

\* KVExistsQuery.SetOptions
KVExistsSetOptions ==
    /\ ~panicked /\ d.kind = "kv.exists" /\ pc = "idle"
    /\ \E o \in OptionChoices :
         /\ opts' = KVExistsOptions(o)
         /\ hist' = NoteSet(hist, o)
    /\ UNCHANGED <<d, ident, stopCh, pc, req, resp, ret, panicked, observed, store>>

\* String
KVKeyString ==
    /\ ~panicked /\ IsKVKey
    /\ observed' = StringValue(KVKeyQueryString(d))
    /\ UNCHANGED <<d, ident, stopCh, opts, pc, req, resp, ret, panicked, store, hist>>

\* ------------------------------------------------------------- identifiers
\* strings.Index(s, c): the first position of c in s, 0 without one.
IndexOf(s, c) ==
    IF \E i \in 1..Len(s) : s[i] = c
    THEN CHOOSE i \in 1..Len(s) : s[i] = c /\ \A j \in 1..(i - 1) : s[j] # c
    ELSE 0

\* The last position of c in s, 0 without one.
LastIndexOf(s, c) ==
    IF \E i \in 1..Len(s) : s[i] = c
    THEN CHOOSE i \in 1..Len(s) : s[i] = c /\ \A j \in (i + 1)..Len(s) : s[j] # c
    ELSE 0

\* strings.Contains(s, sub)
Contains(s, sub) ==
    \E i \in 1..(Len(s) - Len(sub) + 1) : SubSeq(s, i, i + Len(sub) - 1) = sub

\* Every character of s is of class C.
AllIn(s, C) == \A i \in 1..Len(s) : s[i] \in C

\* s cut at its first c: what is before it, whether c is there, what follows.
Cut(s, c) ==
    LET i == IndexOf(s, c)
    IN  IF i = 0 THEN [head |-> s, has |-> FALSE, tail |-> <<>>]
        ELSE [head |-> SubSeq(s, 1, i - 1), has |-> TRUE, tail |-> SubSeq(s, i + 1, Len(s))]

RECURSIVE Split(_, _)
\* strings.Split(s, sep) for a separator of one character.
Split(s, sep) ==
    LET i == IndexOf(s, sep)
    IN  IF i = 0 THEN <<s>>
        ELSE <<SubSeq(s, 1, i - 1)>> \o Split(SubSeq(s, i + 1, Len(s)), sep)

WhiteSpace == {" ", "\t", "\n", "\r"}

RECURSIVE TrimSpace(_)
\* strings.TrimSpace(s)
TrimSpace(s) ==
    IF s = <<>> THEN s
    ELSE IF Head(s) \in WhiteSpace THEN TrimSpace(Tail(s))
    ELSE IF s[Len(s)] \in WhiteSpace THEN TrimSpace(SubSeq(s, 1, Len(s) - 1))
    ELSE s

RECURSIVE InsertString(_, _)
\* sorted with str put before its first element greater than str.
InsertString(sorted, str) ==
    IF sorted = <<>> THEN <<str>>
    ELSE IF StrLess(str, Head(sorted)) THEN <<str>> \o sorted
    ELSE <<Head(sorted)>> \o InsertString(Tail(sorted), str)

RECURSIVE SortStrings(_)
\* sort.Strings(list): the list in ascending order.
SortStrings(list) ==
    IF list = <<>> THEN <<>>
    ELSE InsertString(SortStrings(SubSeq(list, 1, Len(list) - 1)), list[Len(list)])

\* fmt's %q of a string without characters to escape.
Quote(s) == <<"\"">> \o s \o <<"\"">>

\* The character classes of the segments of an identifier.
WordChars ==
    {"a", "b", "c", "d", "e", "f", "g", "h", "i", "j", "k", "l", "m", "n", "o",
     "p", "q", "r", "s", "t", "u", "v", "w", "x", "y", "z",
     "0", "1", "2", "3", "4", "5", "6", "7", "8", "9", "_"}
NameChars == WordChars \cup {"-"}
DcChars == WordChars \cup {".", "-"}
TagChars == WordChars \cup {".", "-", "=", ":"}
FilterChars == WordChars \cup {","}

\* HealthServiceQueryRe, anchored: [tag.]name[@dc][~near][|filter].  ok: s
\* matches; tag, name, dc, near, filter: the named groups, "" when absent.
HealthServiceQueryMatch(s) ==
    LET f == Cut(s, "|")
        n == Cut(f.head, "~")
        c == Cut(n.head, "@")
        dot == LastIndexOf(c.head, ".")
        tag == SubSeq(c.head, 1, dot - 1)
        name == SubSeq(c.head, dot + 1, Len(c.head))
    IN  [ok |-> /\ (f.has => f.tail # <<>> /\ AllIn(f.tail, FilterChars))
                /\ (n.has => n.tail # <<>> /\ AllIn(n.tail, DcChars))
                /\ (c.has => c.tail # <<>> /\ AllIn(c.tail, DcChars))
                /\ (dot > 0 => tag # <<>> /\ AllIn(tag, TagChars))
                /\ AllIn(name, NameChars),
         tag |-> tag, name |-> name, dc |-> c.tail, near |-> n.tail, filter |-> f.tail]

\* KVListQueryRe, anchored: [/][prefix][@dc], one leading separator trimmed.
KVListQueryMatch(s) ==
    LET c == Cut(s, "@")
        prefix == IF c.head # <<>> /\ Head(c.head) = "/" THEN Tail(c.head) ELSE c.head
    IN  [ok |-> c.has => c.tail # <<>> /\ AllIn(c.tail, DcChars),
         prefix |-> prefix, dc |-> c.tail]

\* The status vocabulary of a filter.
FilterVocabulary == {HealthAny, HealthPassing, HealthWarning, HealthCritical, HealthMaint}

\* fmt.Errorf("health.service: invalid format: %q", s)
HealthInvalidFormat(s) ==
    [tag |-> "error", msg |-> <<"h", "e", "a", "l", "t", "h", ".", "s", "e", "r", "v", "i", "c", "e", ":", " ", "i", "n", "v", "a", "l", "i", "d", " ", "f", "o", "r", "m", "a", "t", ":", " ">> \o Quote(s)]

\* An invalid filter reported as an invalid format, without the token.
HealthInvalidFilterAsFormat(f, s) == HealthInvalidFormat(s)

\* fmt.Errorf("health.service: invalid filter: %q in %q", f, s)
HealthInvalidFilter(f, s) ==
    [tag |-> "error",
     msg |-> <<"h", "e", "a", "l", "t", "h", ".", "s", "e", "r", "v", "i", "c", "e", ":", " ", "i", "n", "v", "a", "l", "i", "d", " ", "f", "i", "l", "t", "e", "r", ":", " ">>
             \o Quote(f) \o <<" ", "i", "n", " ">> \o Quote(s)]

\* fmt.Errorf("kv.list: invalid format: %q", s)
KVListInvalidFormat(s) ==
    [tag |-> "error", msg |-> <<"k", "v", ".", "l", "i", "s", "t", ":", " ", "i", "n", "v", "a", "l", "i", "d", " ", "f", "o", "r", "m", "a", "t", ":", " ">> \o Quote(s)]

RECURSIVE FilterLoop(_, _, _)
\* healthServiceQuery's loop over the split filter: a token of the vocabulary
\* is appended, an empty one is skipped, any other one ends the parse.
FilterLoop(split, filters, s) ==
    IF split = <<>> THEN [err |-> NilErr, filters |-> filters]
    ELSE LET f == TrimSpace(Head(split))
         IN  IF f \in FilterVocabulary THEN FilterLoop(Tail(split), Append(filters, f), s)
             ELSE IF f = EmptyStr THEN FilterLoop(Tail(split), filters, s)
             ELSE [err |-> HealthInvalidFilter(f, s), filters |-> <<>>]

\* What a constructor returns: an instance's descriptor or nil, and an error.
NoInstance == [kind |-> "none"]
Failed(e) == [d |-> NoInstance, err |-> e]
Built(q) == [d |-> q, err |-> NilErr]

\* healthServiceQuery(s, connect)
healthServiceQuery(s, connect) ==
    LET m == HealthServiceQueryMatch(s)
        loop == FilterLoop(Split(m.filter, ","), <<>>, s)
        filters == IF m.filter # EmptyStr THEN SortStrings(loop.filters) ELSE <<HealthPassing>>
    IN  IF ~m.ok THEN Failed(HealthInvalidFormat(s))
        ELSE IF m.filter # EmptyStr /\ loop.err # NilErr THEN Failed(loop.err)
        ELSE Built([kind |-> "health.service", dc |-> m.dc, filters |-> filters,
                    name |-> m.name, near |-> m.near, tag |-> m.tag, connect |-> connect])

\* NewKVListQuery(s), as a function of s
kvListQuery(s) ==
    LET m == KVListQueryMatch(s)
    IN  IF s # EmptyStr /\ ~m.ok THEN Failed(KVListInvalidFormat(s))
        ELSE Built([kind |-> "kv.list", dc |-> m.dc, prefix |-> m.prefix])

\* ------------------------------------------------------------- constructors
Bogus == <<"b", "o", "g", "u", "s">>
Up == <<"u", "p">>

\* The filter tokens an identifier is written with; none: no filter segment.
TokenLists ==
    {<<>>, <<HealthPassing>>, <<HealthAny>>, <<HealthMaint>>,
     <<HealthPassing, HealthCritical>>, <<HealthCritical, HealthPassing>>,
     <<HealthPassing, HealthPassing>>, <<HealthWarning, EmptyStr, HealthAny>>,
     <<EmptyStr, EmptyStr>>, <<EmptyStr>>,
     <<HealthPassing, Bogus>>, <<Bogus, HealthPassing>>,
     <<HealthWarning, Up, HealthAny, Bogus>>}

\* "|" and the tokens joined by commas.
FilterSegment(tokens) ==
    IF tokens = <<>> THEN EmptyStr ELSE <<"|">> \o Join(tokens, <<",">>)

\* Identifiers handed to the health constructors, with the tokens of their
\* filter segment; the last ones do not follow the grammar.
HealthIdentifiers ==
    {[s |-> t \o Svc \o c \o n \o FilterSegment(k), tokens |-> k] :
        t \in {EmptyStr, <<"t", "1", ".">>},
        c \in {EmptyStr, <<"@">> \o DC1},
        n \in {EmptyStr, <<"~">> \o NodeB},
        k \in TokenLists}
    \cup {[s |-> Svc \o <<"@">>, tokens |-> <<>>],
          [s |-> Svc \o <<"~">> \o NodeB \o <<"@">> \o DC1, tokens |-> <<>>],
          [s |-> Svc \o <<"|">> \o HealthAny \o <<"|">> \o HealthAny, tokens |-> <<>>]}

\* Identifiers handed to NewKVListQuery.
KVListIdentifiers ==
    {[s |-> s, tokens |-> <<>>] :
        s \in {EmptyStr, <<"a">>, <<"/", "a">>, <<"/", "/", "a">>, <<"a", "/">>,
               <<"a", "/", "b">>, <<"a">> \o <<"@">> \o DC1, <<"/", "a">> \o <<"@">> \o DC1,
               <<"a", "@">>, <<"a", "@">> \o DC1 \o <<"@">> \o DC1}}

\* A constructor about to be called with an identifier.
Call(ctor, i) ==
    [ctor |-> ctor, s |-> i.s, tokens |-> i.tokens, called |-> FALSE,
     err |-> NilErr, again |-> Nil]

Calls ==
    {Call(c, i) : c \in {"NewHealthServiceQuery", "NewHealthConnectQuery"},
                  i \in HealthIdentifiers}
    \cup {Call("NewKVListQuery", i) : i \in KVListIdentifiers}

\* No instance yet: no descriptor, no stop channel.
ParseInit ==
    /\ ident \in Calls
    /\ d = NoInstance
    /\ stopCh = Nil
    /\ opts = ZeroOptions
    /\ pc = "idle"
    /\ req = NoRequest
    /\ resp = <<>>
    /\ ret = NoReturn
    /\ panicked = FALSE
    /\ observed = Nil
    /\ store = {}
    /\ hist = NoHistory

\* The constructor returns r: with an instance, its stop channel is made.
Construct(r) ==
    /\ ~ident.called
    /\ ident' = [ident EXCEPT !.called = TRUE, !.err = r.err]
    /\ d' = r.d
    /\ stopCh' = IF r.err = NilErr THEN MakeChan ELSE stopCh
    /\ UNCHANGED <<opts, pc, req, resp, ret, panicked, observed, store, hist>>

\* NewHealthServiceQuery(s)
NewHealthServiceQuery ==
    ident.ctor = "NewHealthServiceQuery" /\ Construct(healthServiceQuery(ident.s, FALSE))

\* NewHealthConnectQuery(s)
NewHealthConnectQuery ==
    ident.ctor = "NewHealthConnectQuery" /\ Construct(healthServiceQuery(ident.s, TRUE))

\* NewKVListQuery(s)
NewKVListQuery ==
    ident.ctor = "NewKVListQuery" /\ Construct(kvListQuery(ident.s))

\* What is between the parentheses of a canonical string.
Inside(str) == SubSeq(str, IndexOf(str, "(") + 1, Len(str) - 1)

\* The constructor ctor called with s.
ConstructorOf(ctor, s) ==
    CASE ctor = "NewHealthServiceQuery" -> healthServiceQuery(s, FALSE)
      [] ctor = "NewHealthConnectQuery" -> healthServiceQuery(s, TRUE)
      [] ctor = "NewKVListQuery" -> kvListQuery(s)

\* The identifier inside the instance's String() is handed to the same
\* constructor.
ParseAgain ==
    /\ d # NoInstance /\ observed.tag = "string" /\ ident.again = Nil
    /\ ident' = [ident EXCEPT !.again = ConstructorOf(ident.ctor, Inside(observed.val))]
    /\ UNCHANGED <<d, stopCh, opts, pc, req, resp, ret, panicked, observed, store, hist>>

ParseNext ==
    \/ NewHealthServiceQuery \/ NewHealthConnectQuery \/ NewKVListQuery
    \/ HealthString \/ KVListString \/ ParseAgain

\* A constructor call, String() on its instance, and the parse of that string.
ParseSpec == ParseInit /\ [][ParseNext]_vars

\* ------------------------------------------------------------- specification
Next ==
    \/ KVListFetchCall \/ KVListFetchOk \/ KVListFetchErr
    \/ KVListStop \/ KVListSetOptions \/ KVListString \/ KVListCanShare
    \/ HealthFetchCall \/ HealthFetchOk \/ HealthFetchErr
    \/ HealthStop \/ HealthSetOptions \/ HealthString \/ HealthCanShare
    \/ KVKeyFetchCall \/ KVKeyFetchOk \/ KVKeyFetchErr
    \/ KVKeyStop \/ KVGetSetOptions \/ KVExistsSetOptions \/ KVKeyString

Spec == Init /\ [][Next]_vars

\* The fetch path alone, over the larger stores.
FetchNext ==
    \/ KVListFetchCall \/ KVListFetchOk \/ KVListFetchErr
    \/ HealthFetchCall \/ HealthFetchOk \/ HealthFetchErr
    \/ KVKeyFetchCall \/ KVKeyFetchOk \/ KVKeyFetchErr

FetchSpec == FetchInit /\ [][FetchNext]_vars

\* ------------------------------------------------------------- polling loop
\* The loop of the "stops" test: one task fetches until the first error,
\* another task stops the dependency once; the transport always answers.
LoopInit == Init

\* data, _, err := d.Fetch(clients), as long as no error came back.
LoopFetch ==
    /\ ret.err.tag \in {"none", "nil"}
    /\ (KVListFetchCall \/ HealthFetchCall \/ KVKeyFetchCall)

\* The transport answers the call.
LoopAnswer == KVListFetchOk \/ HealthFetchOk \/ KVKeyFetchOk

\* if err != nil { errCh <- err; return }
LoopExit ==
    /\ ~panicked /\ pc = "idle"
    /\ ret.err.tag \notin {"none", "nil"}
    /\ pc' = "exited"
    /\ UNCHANGED <<d, ident, stopCh, opts, req, resp, ret, panicked, observed, store, hist>>

\* d.Stop(), once.
StopOnce ==
    /\ hist.stops = 0
    /\ (KVListStop \/ HealthStop \/ KVKeyStop)

LoopNext == LoopFetch \/ LoopAnswer \/ LoopExit \/ StopOnce

\* Both tasks are scheduled fairly and every transport call returns.
LoopSpec ==
    /\ LoopInit /\ [][LoopNext]_vars
    /\ WF_vars(LoopFetch) /\ WF_vars(LoopAnswer) /\ WF_vars(LoopExit) /\ WF_vars(StopOnce)

\* ------------------------------------------------------------- claims
FromSource == d.kind \in {"kv.list", "health.service"}

\* C1: a second Stop() on a KVListQuery or HealthServiceQuery does not panic
\* and leaves the instance as one Stop() left it.
C1_StopTwiceIsSafe == FromSource => ~panicked

\* C2: a Fetch that begins after Stop() has returned makes no transport call
\* and returns (nil, nil, ErrStopped).
C2_FetchAfterStop ==
    [][(FromSource /\ hist.stops > 0 /\ pc = "idle")
          => (pc' = "idle" /\ req' = NoRequest /\ (ret' # ret => ret' = ReturnStopped))]_vars

C2_Witness ==
    /\ FromSource /\ hist.stops > 0 /\ hist.began > 0 /\ hist.stopped = hist.began
    /\ ret = ReturnStopped /\ pc = "idle" /\ req = NoRequest

\* C3: Stopped is terminal: once stopped the instance is never active again,
\* and every Fetch begun after Stop() returns ErrStopped, not only the first.
C3_StoppedIsTerminal ==
    /\ [][FromSource /\ stopCh.closed => stopCh'.closed]_vars
    /\ [](FromSource /\ hist.stops > 0 => stopCh.closed /\ hist.stopped = hist.began)

C3_Witness ==
    /\ FromSource /\ stopCh.closed /\ hist.began = MaxFetches /\ hist.stopped = MaxFetches
    /\ opts # ZeroOptions /\ observed # Nil /\ ret = ReturnStopped

\* C4: the polling loop eventually exits, with ErrStopped, and at most one
\* Fetch returns data after Stop().
C4_LoopStops ==
    /\ <>[](pc = "exited" /\ ret = ReturnStopped)
    /\ [](hist.late <= 1)

C4_Witness == pc = "exited" /\ ret = ReturnStopped /\ hist.late = 1 /\ FromSource

\* C5: an exists query always stores WaitIndex = 0 and WaitTime = 0 and hands
\* no blocking parameter to the transport; a get query stores the options as
\* supplied.
C5_ExistsDropsWait ==
    /\ d.kind = "kv.exists"
          => /\ opts = [hist.lastSet EXCEPT !.WaitIndex = 0, !.WaitTime = 0]
             /\ (pc = "transport" => req.q.WaitIndex = 0 /\ req.q.WaitTime = 0)
    /\ d.kind = "kv.get" => opts = hist.lastSet

C5_Witness ==
    /\ d.kind = "kv.exists" /\ hist.lastSet.WaitIndex # 0 /\ hist.lastSet.WaitTime # 0
    /\ pc = "transport" /\ req.q.WaitIndex = 0

\* C6: for kv.get, kv.list and health.service SetOptions replaces the whole
\* options, and the transport gets the WaitIndex of the last SetOptions call
\* (0 without one), nothing of an earlier call.
C6_LastOptionsWin ==
    d.kind \in {"kv.get", "kv.list", "health.service"}
       => /\ opts = hist.lastSet
          /\ (pc = "transport" => req.q.WaitIndex = hist.lastSet.WaitIndex)

C6_Witness ==
    /\ FromSource /\ hist.waited /\ hist.lastSet.WaitIndex = 0
    /\ pc = "transport" /\ req.q.WaitIndex = 0

\* C7: a successful get of a key whose value is the empty string returns the
\* empty string, of a missing key returns nil; the two differ, neither is an
\* error.
C7_EmptyIsNotMissing ==
    (d.kind = "kv.get" /\ ret.err = NilErr)
       => /\ (resp = <<>> => ret.data = Nil)
          /\ (resp # <<>> => ret.data = StringValue(resp[1].Value))
          /\ ret.data = Nil <=> resp = <<>>

C7_Witness ==
    /\ d.kind = "kv.get" /\ ret.err = NilErr /\ resp # <<>>
    /\ resp[1].Value = EmptyStr /\ ret.data = StringValue(EmptyStr) /\ ret.data # Nil

\* A successful Fetch of a health query without (with) a near node has returned.
HealthData == d.kind = "health.service" /\ ret.err = NilErr
SortedData == HealthData /\ d.near = EmptyStr
NearData == HealthData /\ d.near # EmptyStr

\* C8: without a near node the returned list is in non-decreasing order of
\* (Node, ID).
C8_SortedByNodeThenID ==
    SortedData =>
        \A i \in 1..(Len(ret.data.val) - 1) :
            LET a == ret.data.val[i]
                b == ret.data.val[i + 1]
            IN  StrLess(a.Node, b.Node) \/ (a.Node = b.Node /\ StrLessEq(a.ID, b.ID))

C8_Witness ==
    /\ SortedData /\ Len(resp) = 2 /\ Len(ret.data.val) = 2
    /\ resp[1].Node.Node = NodeB /\ resp[1].Service.ID = IdB1
    /\ resp[2].Node.Node = NodeA /\ resp[2].Service.ID = IdA1
    /\ ret.data.val[1].Node = NodeA /\ ret.data.val[2].Node = NodeB

\* This step returns data of a health query without a near node, and so did
\* the Fetch before, from the same entries.
SecondSortedData ==
    /\ SortedData /\ pc = "transport" /\ pc' = "idle" /\ ret'.err = NilErr
    /\ {resp[i] : i \in 1..Len(resp)} = {resp'[i] : i \in 1..Len(resp')}

\* No two entries of the answer share a (Node, ID).
DistinctKeys(r) ==
    \A i, j \in 1..Len(r) :
        (r[i].Node.Node = r[j].Node.Node /\ r[i].Service.ID = r[j].Service.ID) => i = j

\* C9 as stated: two fetches whose answers hold the same entries, in whatever
\* order, return the same list.
C9_SameEntriesSameList == [][SecondSortedData => ret'.data = ret.data]_vars

\* C9 amended: two fetches whose answers hold the same entries, no two of
\* them with the same (Node, ID), in whatever order, return the same list.
C9_DistinctEntriesSameList ==
    [][(SecondSortedData /\ DistinctKeys(resp')) => ret'.data = ret.data]_vars

C9_Witness ==
    /\ SortedData /\ hist.reordered /\ DistinctKeys(resp)
    /\ Len(resp) = 2 /\ Len(ret.data.val) = 2

\* The services of the accepted entries of r, in r's order.
Accepted(r, filters) ==
    LET kept == SelectSeq(r, LAMBDA e : AcceptStatus(filters, AggregatedStatus(e.Checks)))
    IN  [i \in 1..Len(kept) |-> HealthService(kept[i])]

\* C10: with a near node the returned list is the transport's list without
\* the entries the filter rejects, the others in the transport's order.
C10_NearKeepsOrder == NearData => ret.data.val = Accepted(resp, d.filters)

C10_Witness ==
    /\ NearData /\ Len(resp) = 2 /\ Len(ret.data.val) = 2
    /\ StrLess(ret.data.val[2].Node, ret.data.val[1].Node)

\* A health constructor has returned an instance for an identifier without
\* a filter segment.
NoFilterSegment ==
    /\ ident.ctor \in {"NewHealthServiceQuery", "NewHealthConnectQuery"}
    /\ ident.called /\ ident.tokens = <<>> /\ d # NoInstance

HealthServiceTag == <<"h", "e", "a", "l", "t", "h", ".", "s", "e", "r", "v", "i", "c", "e", "(">>

\* C11 as stated: parsed from an identifier without a filter segment, the
\* filters are exactly ["passing"] and String() is the identifier wrapped in
\* the kind tag, without a filter suffix.
C11_DefaultFilterNoSuffix ==
    NoFilterSegment
       => /\ d.filters = <<HealthPassing>>
          /\ (observed.tag = "string"
                 => observed.val = HealthServiceTag \o ident.s \o <<")">>)

\* C11 amended: parsed from an identifier without a filter segment, the
\* filters are exactly ["passing"] and String() is the identifier followed by
\* the suffix "|passing", wrapped in the kind tag.
C11_DefaultFilterSuffix ==
    NoFilterSegment
       => /\ d.filters = <<HealthPassing>>
          /\ (observed.tag = "string"
                 => observed.val = HealthServiceTag \o ident.s
                                      \o <<"|">> \o HealthPassing \o <<")">>)

C11_Witness ==
    /\ ident.ctor = "NewHealthServiceQuery" /\ ident.s = Svc \o <<"@">> \o DC1
    /\ d # NoInstance /\ d.name = Svc /\ d.dc = DC1 /\ d.filters = <<HealthPassing>>
    /\ observed = StringValue(<<"h", "e", "a", "l", "t", "h", ".", "s", "e", "r", "v", "i", "c", "e", "(", "s", "v", "c", "@", "d", "c", "1", "|", "p", "a", "s", "s", "i", "n", "g", ")">>)

\* C12: the identifier inside String() of a parsed instance parses again,
\* to a descriptor equal to the instance's.
C12_RoundTrip ==
    ident.again # Nil => ident.again.err = NilErr /\ ident.again.d = d

\* The positions of the tokens that are neither of the vocabulary nor empty.
BadTokens(tokens) ==
    {i \in 1..Len(tokens) : tokens[i] \notin FilterVocabulary \cup {EmptyStr}}

\* C13: a health identifier with a filter token outside the vocabulary is
\* rejected, wherever the token stands: no instance and no stop channel, and
\* an error that names an offending token and the whole input.
C13_BadFilterRejected ==
    (/\ ident.ctor \in {"NewHealthServiceQuery", "NewHealthConnectQuery"}
     /\ ident.called /\ BadTokens(ident.tokens) # {})
       => /\ d = NoInstance /\ stopCh = Nil
          /\ ident.err # NilErr
          /\ \E i \in BadTokens(ident.tokens) :
                Contains(ident.err.msg, Quote(ident.tokens[i]))
          /\ Contains(ident.err.msg, Quote(ident.s))

C13_Witness ==
    /\ ident.called /\ ident.tokens = <<HealthPassing, Bogus>>
    /\ d = NoInstance /\ stopCh = Nil
    /\ Contains(ident.err.msg, Quote(Bogus)) /\ Contains(ident.err.msg, Quote(ident.s))

\* A successful Fetch of a key-value list query has returned.
KVListData == d.kind = "kv.list" /\ ret.err = NilErr

\* k without the prefix p, if it starts with p, and then without its
\* leading "/"s.
RelativeKey(k, p) ==
    LET rest == IF Len(k) >= Len(p) /\ SubSeq(k, 1, Len(p)) = p
                THEN SubSeq(k, Len(p) + 1, Len(k)) ELSE k
        n == CHOOSE n \in 0..Len(rest) :
                /\ \A i \in 1..n : rest[i] = "/"
                /\ (n < Len(rest) => rest[n + 1] # "/")
    IN  SubSeq(rest, n + 1, Len(rest))

\* C14: KVListQuery.Fetch maps the transport's list pointwise: same length,
\* the i-th record has the i-th raw key as Path, the value, indexes, flags and
\* session copied, and as Key the raw key without the queried prefix and
\* then without leading "/".
C14_PairsPointwise ==
    KVListData =>
        /\ Len(ret.data.val) = Len(resp)
        /\ \A i \in 1..Len(resp) :
              LET r == ret.data.val[i]
                  p == resp[i]
              IN  /\ r.Path = p.Key /\ r.Value = p.Value
                  /\ r.CreateIndex = p.CreateIndex /\ r.ModifyIndex = p.ModifyIndex
                  /\ r.LockIndex = p.LockIndex /\ r.Flags = p.Flags
                  /\ r.Session = p.Session
                  /\ r.Key = RelativeKey(p.Key, d.prefix)

C14_Witness ==
    /\ KVListData /\ d.prefix = <<"a">> /\ Len(resp) = 2
    /\ resp[1].Key = <<"a", "/", "/", "y">> /\ resp[2].Key = <<"a", "/", "x">>
    /\ ret.data.val[1].Key = <<"y">> /\ ret.data.val[1].Path = <<"a", "/", "/", "y">>
    /\ ret.data.val[2].Key = <<"x">> /\ ret.data.val[2].Value = <<"1">>

\* The canonical string of the instance.
StringOf(q) ==
    IF q.kind = "kv.list" THEN KVListQueryString(q) ELSE HealthServiceQueryString(q)

\* C15: every step of a Fetch inside its transport call ends the Fetch (no
\* second call); when the transport fails the Fetch returns nil data, nil
\* metadata and the transport's error wrapped with String(), the options and
\* the stop channel are as before, and no later Fetch returns without a
\* transport call of its own while the instance is active.
C15_TransportErrorWrapped ==
    /\ [][(FromSource /\ pc = "transport" /\ <<pc, req, ret>>' # <<pc, req, ret>>)
            => /\ pc' = "idle" /\ req' = NoRequest
               /\ opts' = opts /\ stopCh' = stopCh
               /\ (ret'.err # NilErr
                     => ret' = [data |-> Nil, meta |-> NilMeta,
                                err |-> [tag |-> "wrapped", msg |-> StringOf(d),
                                         cause |-> "transport"]])]_vars
    /\ [][(FromSource /\ pc = "idle" /\ ret.err.tag = "wrapped" /\ ~stopCh.closed)
            => (ret' = ret /\ (pc' # pc => pc' = "transport" /\ req'.q.WaitIndex = opts.WaitIndex))]_vars

C15_Witness ==
    /\ FromSource /\ ret.err.tag = "wrapped" /\ ret.err.msg = StringOf(d)
    /\ ret.data = Nil /\ ret.meta = NilMeta
    /\ pc = "transport" /\ opts # ZeroOptions /\ ~stopCh.closed

\* The place of service x in list l.
PlaceOf(l, x) == CHOOSE i \in 1..Len(l) : l[i] = x

\* C16: the sort is stable: two returned services with the same (Node, ID)
\* stand in the order in which the transport delivered their entries.
C16_SortIsStable ==
    SortedData =>
        \A i, j \in 1..Len(ret.data.val) :
            LET a == ret.data.val[i]
                b == ret.data.val[j]
                delivered == Accepted(resp, d.filters)
            IN  (i < j /\ a.Node = b.Node /\ a.ID = b.ID)
                    => PlaceOf(delivered, a) < PlaceOf(delivered, b)

\* What Fetch makes of the transport's records r.
Normalized(r, q) ==
    IF q.kind = "kv.list" THEN PairList(KeyPairs(r, q.prefix))
    ELSE ServiceList(HealthFetchList(r, q))

\* C17: Stop() can be called, and returns, while a Fetch is inside its
\* transport call; that Fetch returns the transport's outcome (on success
\* the normalized data and the metadata), not ErrStopped; ErrStopped is
\* returned only by a Fetch that began after Stop() had returned.
C17_StopDuringFetch ==
    /\ [](FromSource /\ pc = "transport" /\ ~panicked => ENABLED (KVListStop \/ HealthStop))
    /\ [][(FromSource /\ pc = "transport" /\ stopCh.closed /\ pc' = "idle")
            => /\ ret'.err # ErrStopped
               /\ (ret'.err = NilErr
                     => ret'.meta.tag = "meta" /\ ret'.data = Normalized(resp', d))]_vars
    /\ [](FromSource /\ ret = ReturnStopped => hist.began > 0 /\ hist.stopped > 0)

C17_Witness ==
    /\ FromSource /\ stopCh.closed /\ hist.stops = 1 /\ hist.began = 0 /\ hist.late = 1
    /\ pc = "idle" /\ ret.err = NilErr /\ ret.meta.tag = "meta" /\ resp # <<>>

\* The filters of a descriptor as a set, and the entries they let through.
FilterSet(q) == {q.filters[i] : i \in 1..Len(q.filters)}
Passes(e, q) == HealthAny \in FilterSet(q) \/ AggregatedStatus(e.Checks) \in FilterSet(q)

\* C18: the services returned are those of the transport's entries whose
\* aggregated status is among the filters, all of them under "any", each
\* once; the passing-only flag goes to the transport exactly when the filter
\* list is ["passing"].
C18_FilterIsExact ==
    /\ HealthData =>
          LET kept == {i \in 1..Len(resp) : Passes(resp[i], d)}
          IN  /\ {ret.data.val[i] : i \in 1..Len(ret.data.val)}
                    = {HealthService(resp[i]) : i \in kept}
              /\ Len(ret.data.val) = Cardinality(kept)
    /\ (d.kind = "health.service" /\ pc = "transport")
          => (req.passingOnly <=> d.filters = <<HealthPassing>>)

C18_Witness ==
    /\ HealthData /\ d.filters = <<HealthPassing>>
    /\ Len(resp) = 2 /\ Len(ret.data.val) = 1
    /\ ret.data.val[1].Status = HealthPassing

\* The other of the two health constructors.
OtherConstructor ==
    IF ident.ctor = "NewHealthServiceQuery"
    THEN "NewHealthConnectQuery" ELSE "NewHealthServiceQuery"

\* C19: String() of an instance of NewHealthServiceQuery(s) differs from
\* String() of the instance of NewHealthConnectQuery(s), and the other way
\* round.
C19_StringTellsKind ==
    (d.kind = "health.service" /\ observed.tag = "string" /\ ident.ctor # "elided")
       => observed.val # HealthServiceQueryString(ConstructorOf(OtherConstructor, ident.s).d)

\* The options Fetch is to hand to the transport: the stored ones, with the
\* descriptor's dc (and near, for a health query) where it is not empty.
Effective(base, q) ==
    [base EXCEPT
        !.Datacenter = IF q.dc # EmptyStr THEN q.dc ELSE @,
        !.Near = IF q.kind = "health.service" /\ q.near # EmptyStr THEN q.near ELSE @]

\* C20: the transport gets the stored options with Datacenter (and Near, for
\* a health query) replaced by the descriptor's value when that is not
\* empty, and no step of a Fetch changes the stored options.
C20_EffectiveOptions ==
    /\ [](FromSource /\ pc = "transport" => req.q = Effective(opts, d))
    /\ [][(FromSource /\ <<pc, req, ret>>' # <<pc, req, ret>>) => opts' = opts]_vars

C20_Witness ==
    /\ d.kind = "kv.list" /\ pc = "transport" /\ d.dc = DC1
    /\ opts.Datacenter = DC2 /\ opts.Near = NodeA /\ opts.AllowStale
    /\ req.q.Datacenter = DC1 /\ req.q.Near = NodeA /\ req.q.AllowStale

\* A health constructor has returned an instance.
HealthBuilt ==
    /\ ident.ctor \in {"NewHealthServiceQuery", "NewHealthConnectQuery"}
    /\ ident.called /\ d # NoInstance

\* The tokens of l from the last to the first.
Reversed(l) == [i \in 1..Len(l) |-> l[Len(l) + 1 - i]]

\* The identifier of the call with the tokens of its filter segment in the
\* reverse order.
TokensReversed == Cut(ident.s, "|").head \o FilterSegment(Reversed(ident.tokens))

\* C21: the filter list of every instance the parser returns is not empty,
\* holds words of the vocabulary only and is in ascending order; the
\* identifier with its filter tokens in another order gives the same filter
\* list and the same String().
C21_FiltersCanonical ==
    HealthBuilt =>
        /\ Len(d.filters) > 0
        /\ \A i \in 1..Len(d.filters) : d.filters[i] \in FilterVocabulary
        /\ \A i \in 1..(Len(d.filters) - 1) : StrLessEq(d.filters[i], d.filters[i + 1])
        /\ LET other == ConstructorOf(ident.ctor, TokensReversed)
           IN  /\ other.err = NilErr
               /\ other.d.filters = d.filters
               /\ HealthServiceQueryString(other.d) = HealthServiceQueryString(d)

\* C22: no step changes the descriptor, and two String() calls, whatever
\* happens between them, return the same value; a step of a Fetch changes
\* neither the stored options nor the stop channel; a step that changes the
\* stored options changes nothing else of the instance.
C22_DescriptorImmutable ==
    /\ [][FromSource => d' = d]_vars
    /\ [][(FromSource /\ observed.tag = "string" /\ observed'.tag = "string")
            => observed'.val = observed.val]_vars
    /\ [][(FromSource /\ <<pc, req, ret>>' # <<pc, req, ret>>)
            => opts' = opts /\ stopCh' = stopCh]_vars
    /\ [][(FromSource /\ opts' # opts)
            => <<d, stopCh, pc, req, resp, ret, panicked, observed>>'
                  = <<d, stopCh, pc, req, resp, ret, panicked, observed>>]_vars

C22_Witness ==
    /\ FromSource /\ observed = StringValue(StringOf(d))
    /\ stopCh.closed /\ ret = ReturnStopped /\ resp # <<>>
    /\ opts # ZeroOptions /\ hist.waited

====
